---- MODULE Spec2Model ----
(***************************************************************************)
(* Model of the WasteTracker client: the Home page (report collection,     *)
(* bulk fetch, realtime INSERT subscription, error / retry screen, picking *)
(* a report on the heat map, the Detail Modal) and the                     *)
(* UploadComponent rendered in the main view (file validation, location,   *)
(* storage upload, record insert, status line, 3 second auto-clear timer), *)
(* together with the backend they talk to (reports table, storage bucket,  *)
(* change feed).                                                           *)
(*                                                                         *)
(* The layout modelled is the one of the md breakpoint and wider: the      *)
(* UploadComponent of the bottom right corner is the one in use, and the   *)
(* floating button that opens the mobile upload sheet is hidden, so        *)
(* isUploadModalOpen is only ever written by handleUploadSuccess.          *)
(*                                                                         *)
(* Each action is one run-to-completion segment of a handler: the code     *)
(* between two awaits, with every setState it performs.  A report is       *)
(* identified by its id, which is its position in the reports table; the   *)
(* table is append-only, so created_at order is id order.                  *)
(***************************************************************************)
EXTENDS Integers, Sequences, FiniteSets, TLC

VARIABLES
    \* ---- backend ----
    db,                 \* reports table: db[id] = storage key of the photo (0: other client)
    storage,            \* keys of the objects in the waste-photos bucket written by this client
    feed,               \* INSERT events pushed to a channel and not yet handled
    channels,           \* channels the realtime client currently holds
    released,           \* released[i]: removeChannel calls made for the channel of mount i
    \* ---- Home (part_002) ----
    inst,               \* number of times Home was mounted; the current instance if mounted
    mounted,
    reports,            \* useState<WasteReport[]>([])
    error,              \* useState<string>('')
    isLoading,          \* useState(true)
    isUploadModalOpen,  \* useState(false)
    selectedReport,     \* useState<WasteReport | null>(null): a report id, 0 is null
    isModalOpen,        \* useState(false)
    fetches,            \* fetchReports() calls whose await has not resumed
    nFetch,             \* fetchReports() calls issued so far
    retries,            \* Try Again clicks so far
    clicks,             \* clicks on the heat map that picked a report so far
    streamed,           \* ids the INSERT handler has handed to the current instance
    \* ---- UploadComponent (part_001) ----
    uploadStatus,       \* useState<string>(''), as a sequence of fragments
    selectedFile,       \* useState<File | null>(null): index into Files, 0 is null
    previewUrl,         \* useState<string>(''): object URL of file i, 0 is ''
    isUploading,        \* useState(false)
    attempts,           \* handleUpload() calls whose async body has not finished
    nAtt,               \* handleUpload() calls that passed the selectedFile check
    timers,             \* pending setTimeout(() => setUploadStatus(''), 3000) of this instance
    statusTrace         \* values uploadStatus took during the running attempt, kept while
                        \* the message of its success is shown

backendVars == <<db, storage, feed, channels, released>>
modalVars == <<selectedReport, isModalOpen, clicks>>
homeVars == <<inst, mounted, reports, error, isLoading, isUploadModalOpen,
              fetches, nFetch, retries, streamed, modalVars>>
uploadVars == <<uploadStatus, selectedFile, previewUrl, isUploading, attempts,
                nAtt, timers, statusTrace>>
vars == <<backendVars, homeVars, uploadVars>>

----------------------------------------------------------------------------
(* Bounds *)

\* user / environment initiated operations (mounts, Try Again clicks, upload
\* attempts, inserts by other clients, picks of a report on the map) in one
\* behaviour
MaxEvents == 3

----------------------------------------------------------------------------
(* Strings.  A string the code builds from a template is a sequence of its *)
(* fragments, '' is the empty sequence, and a MIME type is a sequence of   *)
(* characters so that startsWith is computed.                              *)

FailedToLoad == "Failed to load reports"

SelectImageMsg == <<"Please select an image file">>
TooLargeMsg == <<"File size must be less than 5MB">>
SelectFirstMsg == <<"Please select a photo first">>
LocatingMsg == <<"Getting your location...">>
UploadingMsg == <<"Uploading photo...">>
SavingMsg == <<"Saving report...">>
SuccessMsg == <<"Report submitted successfully!">>
UploadFailedPrefix == "Upload failed: "
DatabaseErrorPrefix == "Database error: "
UploadFailedMsg == <<"Upload failed">>

ImagePrefix == <<"i", "m", "a", "g", "e", "/">>
ImagePng == <<"i", "m", "a", "g", "e", "/", "p", "n", "g">>
ImageJpeg == <<"i", "m", "a", "g", "e", "/", "j", "p", "e", "g">>
TextPlain == <<"t", "e", "x", "t", "/", "p", "l", "a", "i", "n">>

StartsWith(s, p) == Len(s) >= Len(p) /\ SubSeq(s, 1, Len(p)) = p

MaxFileSize == 5 * 1024 * 1024

\* the files the user can pick in the file dialog
Files == <<
    [type |-> ImagePng,  size |-> MaxFileSize],
    [type |-> ImageJpeg, size |-> 1],
    [type |-> TextPlain, size |-> 10],
    [type |-> ImagePng,  size |-> MaxFileSize + 1],
    [type |-> ImageJpeg, size |-> 6 * 1024 * 1024] >>

\* messages of the errors the external calls can report
StorageMessages == {"Bucket quota exceeded"}
DbMessages == {"permission denied for table reports"}
\* what getCurrentLocation() rejects with: an Error with a message, or another value
LocationErrors == {[isError |-> TRUE,  message |-> <<"Location access denied by user">>],
                   [isError |-> FALSE, message |-> <<>>]}

----------------------------------------------------------------------------
(* Helpers *)

Ids(s) == {s[i] : i \in 1..Len(s)}
Occurrences(s, x) == Cardinality({i \in 1..Len(s) : s[i] = x})
OtherInserts == Cardinality({i \in 1..Len(db) : db[i] = 0})

\* operations started from outside so far
Events == inst + retries + nAtt + OtherInserts + clicks
Budget == Events < MaxEvents

\* which of Home's three render branches is shown
MainView == mounted /\ ~isLoading /\ error = ""
ErrorView == mounted /\ ~isLoading /\ error # ""

----------------------------------------------------------------------------
(* Backend *)

\* .from('reports').select('*').order('created_at', { ascending: false })
QueryReports(table) == [i \in 1..Len(table) |-> Len(table) - i + 1]

\* a row is appended and the change feed pushes it to every joined channel
InsertRow(key) ==
    /\ db' = Append(db, key)
    /\ feed' = feed \cup {[chan |-> c, id |-> Len(db) + 1] : c \in channels}

\* mutant of RemoveChannel: the cleanup releases nothing
RemoveChannelSkipped(c) ==
    UNCHANGED <<channels, feed, released>>

\* supabase.removeChannel(channel)
RemoveChannel(c) ==
    /\ channels' = channels \ {c}
    /\ feed' = {e \in feed : e.chan # c}
    /\ released' = [released EXCEPT ![c] = @ + 1]

\* a report persisted by another client
OtherClientInsert ==
    /\ Budget
    /\ InsertRow(0)
    /\ UNCHANGED <<storage, channels, released, homeVars, uploadVars>>

----------------------------------------------------------------------------
(* UploadComponent instance of the main view: it is unmounted, and its     *)
(* state dropped, when Home renders the loading or the error screen or is  *)
(* unmounted itself.  An attempt that is running then goes on with its     *)
(* network calls; its setState calls no longer have an effect.             *)

UploadUnmounted ==
    /\ uploadStatus' = <<>>
    /\ selectedFile' = 0
    /\ previewUrl' = 0
    /\ isUploading' = FALSE
    /\ timers' = 0
    /\ statusTrace' = <<>>
    /\ attempts' = {[a EXCEPT !.live = FALSE] : a \in attempts}
    /\ UNCHANGED nAtt

UploadFollowsView ==
    IF MainView /\ ~MainView' THEN UploadUnmounted ELSE UNCHANGED uploadVars

----------------------------------------------------------------------------
(* Home: fetchReports *)

\* fetchReports up to its await, called from the closure of Home instance h:
\* setError('') and the query is sent.  When instance h is no longer the
\* mounted one its setState calls change nothing, before the await and after
\* it, so the query of a stale closure is not followed.
FetchReports(h, origin, effective) ==
    /\ error' = IF effective THEN "" ELSE error
    /\ nFetch' = nFetch + 1
    /\ fetches' = IF effective
                  THEN fetches \cup
                         {[n |-> nFetch + 1, inst |-> h, origin |-> origin, stage |-> "sent",
                           error |-> FALSE, hasData |-> FALSE, data |-> <<>>]}
                  ELSE fetches

\* the backend answers a query with the rows it holds at that moment
BackendAnswers(f) ==
    /\ f \in fetches /\ f.stage = "sent"
    /\ fetches' = (fetches \ {f}) \cup
          {[f EXCEPT !.stage = "answered", !.hasData = TRUE, !.data = QueryReports(db)]}
    /\ UNCHANGED <<backendVars, inst, mounted, reports, error, isLoading,
                   isUploadModalOpen, nFetch, retries, streamed, modalVars, uploadVars>>

\* the backend, or the network, fails a query
BackendFails(f) ==
    /\ f \in fetches /\ f.stage = "sent"
    /\ fetches' = (fetches \ {f}) \cup {[f EXCEPT !.stage = "answered", !.error = TRUE]}
    /\ UNCHANGED <<backendVars, inst, mounted, reports, error, isLoading,
                   isUploadModalOpen, nFetch, retries, streamed, modalVars, uploadVars>>

\* data || []
DataOrEmpty(f) == IF f.hasData THEN f.data ELSE <<>>

\* fetchReports after its await, success branch: setReports(data || [])
FetchSucceeded(f) ==
    /\ reports' = DataOrEmpty(f)
    /\ error' = error

\* mutant of FetchFailed: the catch branch also empties the collection
FetchFailedClears(f) ==
    /\ error' = FailedToLoad
    /\ reports' = <<>>

\* fetchReports after its await, catch branch: setError('Failed to load reports')
FetchFailed(f) ==
    /\ error' = FailedToLoad
    /\ reports' = reports

\* fetchReports resumes after its await (try / catch / finally)
FetchDone(f) ==
    /\ f \in fetches /\ f.stage = "answered"
    /\ fetches' = fetches \ {f}
    /\ IF f.inst = inst /\ mounted
       THEN /\ IF f.error THEN FetchFailed(f) ELSE FetchSucceeded(f)
            /\ isLoading' = FALSE
       ELSE UNCHANGED <<reports, error, isLoading>>
    /\ UNCHANGED <<backendVars, inst, mounted, isUploadModalOpen, nFetch, retries, streamed,
                   modalVars>>
    /\ UploadFollowsView

----------------------------------------------------------------------------
(* Home: mount effect, cleanup, realtime handler, Try Again *)

\* useEffect: fetchReports(), then channel(...).on(INSERT, handler).subscribe()
Mount ==
    /\ ~mounted
    /\ Budget
    /\ inst' = inst + 1
    /\ mounted' = TRUE
    /\ FetchReports(inst + 1, "mount", TRUE)
    /\ channels' = channels \cup {inst + 1}
    /\ released' = Append(released, 0)
    /\ UNCHANGED <<db, storage, feed, reports, isLoading, isUploadModalOpen, retries,
                   streamed, modalVars, uploadVars>>

\* the component is unmounted: the effect's cleanup runs and the state is gone;
\* the answers to its outstanding queries will change nothing
Unmount ==
    /\ mounted
    /\ RemoveChannel(inst)
    /\ mounted' = FALSE
    /\ reports' = <<>>
    /\ error' = ""
    /\ isLoading' = TRUE
    /\ isUploadModalOpen' = FALSE
    /\ selectedReport' = 0
    /\ isModalOpen' = FALSE
    /\ streamed' = {}
    /\ fetches' = {}
    /\ UNCHANGED <<db, storage, inst, nFetch, retries, clicks>>
    /\ UploadFollowsView

\* mutant of InsertHandler: the new report is put at the end
InsertHandlerAppends(currentReports, payloadNew) == Append(currentReports, payloadNew)

\* setReports((currentReports) => [payload.new, ...currentReports])
InsertHandler(currentReports, payloadNew) == <<payloadNew>> \o currentReports

\* the channel hands an INSERT event to the handler registered at mount
StreamDeliver(e) ==
    /\ e \in feed
    /\ feed' = feed \ {e}
    /\ IF e.chan = inst /\ mounted
       THEN /\ reports' = InsertHandler(reports, e.id)
            /\ streamed' = streamed \cup {e.id}
       ELSE UNCHANGED <<reports, streamed>>
    /\ UNCHANGED <<db, storage, channels, released, inst, mounted, error, isLoading,
                   isUploadModalOpen, fetches, nFetch, retries, modalVars, uploadVars>>

\* the Try Again button of the error screen: onClick={fetchReports}
TryAgain ==
    /\ ErrorView
    /\ Budget
    /\ FetchReports(inst, "retry", TRUE)
    /\ retries' = retries + 1
    /\ UNCHANGED <<backendVars, inst, mounted, reports, isLoading, isUploadModalOpen,
                   streamed, modalVars, uploadVars>>

\* mutant of HandleUploadSuccess: the callback only closes the upload sheet
HandleUploadSuccessNoFetch(h) ==
    /\ UNCHANGED <<error, nFetch, fetches>>
    /\ isUploadModalOpen' = IF h = inst /\ mounted THEN FALSE ELSE isUploadModalOpen

\* handleUploadSuccess of Home instance h: fetchReports(); setIsUploadModalOpen(false)
HandleUploadSuccess(h) ==
    /\ FetchReports(h, "upload", h = inst /\ mounted)
    /\ isUploadModalOpen' = IF h = inst /\ mounted THEN FALSE ELSE isUploadModalOpen

----------------------------------------------------------------------------
(* Home and MapComponent: picking a report on the heat map, the Detail Modal *)

\* handleReportClick: setSelectedReport(report); setIsModalOpen(true)
HandleReportClick(report) ==
    /\ selectedReport' = report
    /\ isModalOpen' = TRUE

\* mutant of HeatmapOnClick: info.object is not looked at
HeatmapOnClickUnchecked(object) == HandleReportClick(object)

\* onClick of the HeatmapLayer: if (info.object && onReportClick) onReportClick(info.object);
\* object = 0 is info.object being undefined
HeatmapOnClick(object) ==
    IF object # 0
    THEN HandleReportClick(object)
    ELSE UNCHANGED <<selectedReport, isModalOpen>>

\* a click on the map of the main view; what the layer picks is undefined or
\* one of the reports it was given as data.  The sheet of the Detail Modal
\* covers the map while it is shown; the model lets the click through all
\* the same.
MapClick(object) ==
    /\ MainView
    /\ object # 0 => Budget
    /\ HeatmapOnClick(object)
    /\ clicks' = IF object # 0 THEN clicks + 1 ELSE clicks
    /\ UNCHANGED <<backendVars, inst, mounted, reports, error, isLoading, isUploadModalOpen,
                   fetches, nFetch, retries, streamed, uploadVars>>

\* ReportModal: if (!isOpen || !report) return null
ReportModalShown == MainView /\ isModalOpen /\ selectedReport # 0

\* mutant of CloseModal: the selected report is kept
CloseModalKeepsReport ==
    /\ ReportModalShown
    /\ isModalOpen' = FALSE
    /\ UNCHANGED <<selectedReport, clicks>>
    /\ UNCHANGED <<backendVars, inst, mounted, reports, error, isLoading, isUploadModalOpen,
                   fetches, nFetch, retries, streamed, uploadVars>>

\* closeModal, from the modal's close buttons or its backdrop:
\* setIsModalOpen(false); setSelectedReport(null)
CloseModal ==
    /\ ReportModalShown
    /\ isModalOpen' = FALSE
    /\ selectedReport' = 0
    /\ UNCHANGED clicks
    /\ UNCHANGED <<backendVars, inst, mounted, reports, error, isLoading, isUploadModalOpen,
                   fetches, nFetch, retries, streamed, uploadVars>>

----------------------------------------------------------------------------
(* UploadComponent: file selection *)

\* mutant of IsImage: the type check lets every file through
IsImageAnyType(file) == Len(file.type) >= 0

\* file.type.startsWith('image/')
IsImage(file) == StartsWith(file.type, ImagePrefix)

\* mutant of TooLarge: the limit itself is refused
TooLargeInclusive(file) == file.size >= MaxFileSize

\* file.size > 5 * 1024 * 1024
TooLarge(file) == file.size > MaxFileSize

\* mutant of HandleFileSelect: a rejected file also drops the earlier selection
HandleFileSelectRejectClears(i) ==
    IF i = 0
    THEN UNCHANGED <<uploadStatus, selectedFile, previewUrl>>
    ELSE IF ~IsImage(Files[i])
    THEN /\ uploadStatus' = SelectImageMsg
         /\ selectedFile' = 0 /\ previewUrl' = 0
    ELSE IF TooLarge(Files[i])
    THEN /\ uploadStatus' = TooLargeMsg
         /\ selectedFile' = 0 /\ previewUrl' = 0
    ELSE /\ selectedFile' = i
         /\ previewUrl' = i
         /\ uploadStatus' = <<>>

\* handleFileSelect; i = 0 is event.target.files?.[0] being undefined
HandleFileSelect(i) ==
    IF i = 0
    THEN UNCHANGED <<uploadStatus, selectedFile, previewUrl>>
    ELSE IF ~IsImage(Files[i])
    THEN /\ uploadStatus' = SelectImageMsg
         /\ UNCHANGED <<selectedFile, previewUrl>>
    ELSE IF TooLarge(Files[i])
    THEN /\ uploadStatus' = TooLargeMsg
         /\ UNCHANGED <<selectedFile, previewUrl>>
    ELSE /\ selectedFile' = i
         /\ previewUrl' = i
         /\ uploadStatus' = <<>>

\* the file input (disabled={isUploading}) reports a change.  The value of the
\* input element, which the code resets through fileInputRef, is not part of
\* the state: any file of the dialog can be reported at any time.
SelectFile(i) ==
    /\ MainView /\ ~isUploading
    /\ HandleFileSelect(i)
    /\ statusTrace' = IF uploadStatus' # uploadStatus THEN <<>> ELSE statusTrace
    /\ UNCHANGED <<backendVars, homeVars, isUploading, attempts, nAtt, timers>>

\* clearSelection, the X button (rendered when a file is selected, disabled={isUploading})
ClearSelection ==
    /\ MainView /\ selectedFile # 0 /\ ~isUploading
    /\ selectedFile' = 0
    /\ previewUrl' = 0
    /\ uploadStatus' = <<>>
    /\ statusTrace' = <<>>
    /\ UNCHANGED <<backendVars, homeVars, isUploading, attempts, nAtt, timers>>

----------------------------------------------------------------------------
(* UploadComponent: handleUpload *)

\* setUploadStatus(s) while the attempt of this instance runs
SetStatus(s) ==
    /\ uploadStatus' = s
    /\ statusTrace' = IF s # uploadStatus THEN Append(statusTrace, s) ELSE statusTrace

\* catch (error): error instanceof Error ? error.message : 'Upload failed'
CatchStatus(thrown) == IF thrown.isError THEN thrown.message ELSE UploadFailedMsg

\* new Error(`Upload failed: ${uploadError.message}`)
UploadError(m) == [isError |-> TRUE, message |-> <<UploadFailedPrefix, m>>]

\* new Error(`Database error: ${dbError.message}`)
DatabaseError(m) == [isError |-> TRUE, message |-> <<DatabaseErrorPrefix, m>>]

\* mutant of AttemptThrows: setIsUploading(false) is on the success path only
AttemptThrowsKeepsUploading(a, thrown) ==
    /\ attempts' = attempts \ {a}
    /\ IF a.live
       THEN /\ uploadStatus' = CatchStatus(thrown)
            /\ statusTrace' = <<>>
       ELSE UNCHANGED <<uploadStatus, statusTrace>>
    /\ UNCHANGED <<selectedFile, previewUrl, isUploading, nAtt, timers>>

\* an await of attempt a throws: catch, then finally
AttemptThrows(a, thrown) ==
    /\ attempts' = attempts \ {a}
    /\ IF a.live
       THEN /\ uploadStatus' = CatchStatus(thrown)
            /\ statusTrace' = <<>>
            /\ isUploading' = FALSE
       ELSE UNCHANGED <<uploadStatus, statusTrace, isUploading>>
    /\ UNCHANGED <<selectedFile, previewUrl, nAtt, timers>>

\* attempt a moves on to its next await
AttemptContinues(a, pc, status) ==
    /\ attempts' = (attempts \ {a}) \cup {[a EXCEPT !.pc = pc]}
    /\ IF a.live THEN SetStatus(status) ELSE UNCHANGED <<uploadStatus, statusTrace>>
    /\ UNCHANGED <<selectedFile, previewUrl, isUploading, nAtt, timers>>

\* handleUpload up to its first await
HandleUpload ==
    IF selectedFile = 0
    THEN /\ uploadStatus' = SelectFirstMsg
         /\ UNCHANGED <<selectedFile, previewUrl, isUploading, attempts, nAtt, timers,
                        statusTrace>>
    ELSE /\ isUploading' = TRUE
         /\ uploadStatus' = LocatingMsg
         /\ statusTrace' = <<LocatingMsg>>
         /\ nAtt' = nAtt + 1
         /\ attempts' = attempts \cup
               {[n |-> nAtt + 1, pc |-> "locating", file |-> selectedFile,
                 hinst |-> inst, live |-> TRUE]}
         /\ UNCHANGED <<selectedFile, previewUrl, timers>>

\* the Submit Report button: disabled={!selectedFile || isUploading}
ClickUpload ==
    /\ MainView /\ selectedFile # 0 /\ ~isUploading
    /\ Budget
    /\ HandleUpload
    /\ UNCHANGED <<backendVars, homeVars>>

\* getCurrentLocation() resolves: setUploadStatus('Uploading photo...'), storage upload sent
LocationOk(a) ==
    /\ a \in attempts /\ a.pc = "locating"
    /\ AttemptContinues(a, "uploading", UploadingMsg)
    /\ UNCHANGED <<backendVars, homeVars>>

\* mutant of LocationFail: the rejection is swallowed and the storage upload is sent
LocationFailIgnored(a, thrown) ==
    /\ a \in attempts /\ a.pc = "locating"
    /\ AttemptContinues(a, "uploading", UploadingMsg)
    /\ UNCHANGED <<backendVars, homeVars>>

\* getCurrentLocation() rejects
LocationFail(a, thrown) ==
    /\ a \in attempts /\ a.pc = "locating"
    /\ AttemptThrows(a, thrown)
    /\ UNCHANGED <<backendVars, homeVars>>

\* the storage upload succeeded: getPublicUrl, setUploadStatus('Saving report...'),
\* the insert is sent
StorageOk(a) ==
    /\ a \in attempts /\ a.pc = "uploading"
    /\ storage' = storage \cup {a.n}
    /\ AttemptContinues(a, "saving", SavingMsg)
    /\ UNCHANGED <<db, feed, channels, released, homeVars>>

\* mutant of StorageFail: uploadError is not looked at and the attempt goes on
StorageFailIgnored(a, m) ==
    /\ a \in attempts /\ a.pc = "uploading"
    /\ AttemptContinues(a, "saving", SavingMsg)
    /\ UNCHANGED <<backendVars, homeVars>>

\* the storage upload returned uploadError: throw new Error(...)
StorageFail(a, m) ==
    /\ a \in attempts /\ a.pc = "uploading"
    /\ AttemptThrows(a, UploadError(m))
    /\ UNCHANGED <<backendVars, homeVars>>

\* the backend persists the row of attempt a; its answer is on the way
BackendInsert(a) ==
    /\ a \in attempts /\ a.pc = "saving"
    /\ InsertRow(a.n)
    /\ attempts' = (attempts \ {a}) \cup {[a EXCEPT !.pc = "inserted"]}
    /\ UNCHANGED <<storage, channels, released, homeVars, uploadStatus, selectedFile,
                   previewUrl, isUploading, nAtt, timers, statusTrace>>

\* mutant of InsertFail: the failed insert is compensated by removing the object
InsertFailRollsBack(a, m) ==
    /\ a \in attempts /\ a.pc = "saving"
    /\ AttemptThrows(a, DatabaseError(m))
    /\ storage' = storage \ {a.n}
    /\ UNCHANGED <<db, feed, channels, released, homeVars>>

\* the insert returned dbError: throw new Error(...)
InsertFail(a, m) ==
    /\ a \in attempts /\ a.pc = "saving"
    /\ AttemptThrows(a, DatabaseError(m))
    /\ UNCHANGED <<backendVars, homeVars>>

\* the insert returned without error: the success path and finally
InsertDone(a) ==
    /\ a \in attempts /\ a.pc = "inserted"
    /\ attempts' = attempts \ {a}
    /\ IF a.live
       THEN /\ SetStatus(SuccessMsg)
            /\ selectedFile' = 0
            /\ previewUrl' = 0
            /\ timers' = timers + 1
            /\ isUploading' = FALSE
       ELSE UNCHANGED <<uploadStatus, statusTrace, selectedFile, previewUrl, timers,
                        isUploading>>
    /\ HandleUploadSuccess(a.hinst)
    /\ UNCHANGED <<backendVars, inst, mounted, reports, isLoading, retries, streamed,
                   modalVars, nAtt>>

\* a timer set by a successful attempt of this instance fires: setUploadStatus('')
TimerFire ==
    /\ timers > 0
    /\ timers' = timers - 1
    /\ IF isUploading
       THEN SetStatus(<<>>)
       ELSE uploadStatus' = <<>> /\ statusTrace' = <<>>
    /\ UNCHANGED <<backendVars, homeVars, selectedFile, previewUrl, isUploading, attempts,
                   nAtt>>

----------------------------------------------------------------------------
(* Specification *)

Init ==
    /\ db = <<>>
    /\ storage = {}
    /\ feed = {}
    /\ channels = {}
    /\ released = <<>>
    /\ inst = 0
    /\ mounted = FALSE
    /\ reports = <<>>
    /\ error = ""
    /\ isLoading = TRUE
    /\ isUploadModalOpen = FALSE
    /\ selectedReport = 0
    /\ isModalOpen = FALSE
    /\ clicks = 0
    /\ fetches = {}
    /\ nFetch = 0
    /\ retries = 0
    /\ streamed = {}
    /\ uploadStatus = <<>>
    /\ selectedFile = 0
    /\ previewUrl = 0
    /\ isUploading = FALSE
    /\ attempts = {}
    /\ nAtt = 0
    /\ timers = 0
    /\ statusTrace = <<>>

Next ==
    \/ Mount
    \/ Unmount
    \/ OtherClientInsert
    \/ \E f \in fetches : BackendAnswers(f)
    \/ \E f \in fetches : BackendFails(f)
    \/ \E f \in fetches : FetchDone(f)
    \/ \E e \in feed : StreamDeliver(e)
    \/ TryAgain
    \/ \E object \in {0} \cup Ids(reports) : MapClick(object)
    \/ CloseModal
    \/ \E i \in 0..Len(Files) : SelectFile(i)
    \/ ClearSelection
    \/ ClickUpload
    \/ \E a \in attempts : LocationOk(a)
    \/ \E a \in attempts, thrown \in LocationErrors : LocationFail(a, thrown)
    \/ \E a \in attempts : StorageOk(a)
    \/ \E a \in attempts, m \in StorageMessages : StorageFail(a, m)
    \/ \E a \in attempts : BackendInsert(a)
    \/ \E a \in attempts, m \in DbMessages : InsertFail(a, m)
    \/ \E a \in attempts : InsertDone(a)
    \/ TimerFire

Spec == Init /\ [][Next]_vars

----------------------------------------------------------------------------
(* Report Synchronization Store: claims C1 to C6 *)

\* C1: whatever the bulk fetches returned and whatever insert events were
\* streamed, in any interleaving, the displayed collection holds each report
\* id at most once.
C1_EachIdOnce == \A id \in Ids(reports) : Occurrences(reports, id) = 1

\* C2: an insert event whose id is already in the collection is discarded:
\* handling it leaves the collection as it was.
C2_DuplicateEventDiscarded ==
    [][\A e \in feed :
          (StreamDeliver(e) /\ e.chan = inst /\ mounted /\ e.id \in Ids(reports))
              => reports' = reports]_vars

\* C3: a report the insert stream has delivered is still in the collection
\* after every later successful completion of a bulk fetch.
C3_StreamedReportKept ==
    [][\A f \in fetches :
          (FetchDone(f) /\ ~f.error) => streamed \subseteq Ids(reports')]_vars

\* C4 as stated: whenever a bulk fetch fails, the error state is set and the
\* collection is empty.
C4_FailureLeavesEmpty ==
    [][\A f \in fetches :
          (FetchDone(f) /\ f.error) => (error' # "" /\ reports' = <<>>)]_vars

\* C4 as amended: whenever a bulk fetch fails, initial or later, the error
\* state is set to the non-empty 'Failed to load reports', loading is over,
\* and the collection is left as it was before the failure.
C4_FailureKeepsCollection ==
    [][\A f \in fetches :
          (FetchDone(f) /\ f.error)
              => (error' = FailedToLoad /\ error' # "" /\ ~isLoading'
                  /\ reports' = reports)]_vars

\* a later fetch has failed over the collection an earlier fetch had loaded
C4_Witness == error = FailedToLoad /\ reports # <<>> /\ streamed = {} /\ ~isLoading

\* C5: when a fetch started by Try Again succeeds, the error state is clear
\* and the collection is the fetched result in the order the backend gave.
C5_RetrySuccessClearsError ==
    [][\A f \in fetches :
          (FetchDone(f) /\ f.origin = "retry" /\ ~f.error)
              => (error' = "" /\ reports' = f.data)]_vars

\* C6: the channel opened at mount is released exactly once at unmount: at
\* most one channel is held, it is the one of the mounted instance, none is
\* held while unmounted, no event is pending for a released channel, and
\* removeChannel ran once for every earlier mount and not yet for this one.
C6_SubscriptionScoped ==
    /\ Cardinality(channels) <= 1
    /\ channels = IF mounted THEN {inst} ELSE {}
    /\ \A e \in feed : e.chan \in channels
    /\ Len(released) = inst
    /\ \A i \in 1..inst : released[i] = IF mounted /\ i = inst THEN 0 ELSE 1
    /\ ~mounted => reports = <<>>

\* Home was mounted twice and is unmounted, with rows in the table
C6_Witness == ~mounted /\ inst = 2 /\ released = <<1, 1>> /\ db # <<>>

----------------------------------------------------------------------------
(* Upload Flow: claims C7 to C10 *)

\* the files of the dialog whose MIME type is no image type, read off the table
NotImages == {i \in 1..Len(Files) : Files[i].type \notin {ImagePng, ImageJpeg}}

\* C7 as stated: from the rejection of a file that is no image until a valid
\* file is selected, no location request is issued.  The rejection message
\* is replaced by every later selection, so while it is shown no valid file
\* has been selected since.
C7_NoCallsAfterRejection ==
    [][uploadStatus = SelectImageMsg => nAtt' = nAtt]_vars

\* C7 as amended: selecting a file that is no image sets the failure status
\* at once, the handler issues no location request, storage upload or insert
\* and leaves the selection as it was, and the rejected file is never the
\* selected file nor the file of an attempt.
C7_RejectedFileNeverSent ==
    /\ [](selectedFile \notin NotImages /\ \A a \in attempts : a.file \notin NotImages)
    /\ [][\A i \in NotImages :
             SelectFile(i)
                 => /\ uploadStatus' = SelectImageMsg
                    /\ selectedFile' = selectedFile /\ previewUrl' = previewUrl
                    /\ attempts' = attempts /\ nAtt' = nAtt
                    /\ storage' = storage /\ db' = db /\ nFetch' = nFetch]_vars

\* a file that is no image was rejected while an accepted file stays selected
C7_Witness == uploadStatus = SelectImageMsg /\ selectedFile # 0

\* sizes around the limit
BoundarySizes == {0, 1, 5 * 1024 * 1024 - 1, 5 * 1024 * 1024, 5 * 1024 * 1024 + 1,
                  6 * 1024 * 1024}

\* C8: an image file is accepted exactly when its size is at most 5 MiB; a
\* larger one is rejected with the size message, which is not the message for
\* a file that is no image, and the selection stays as it was.
C8_SizeLimit ==
    /\ [](\A n \in BoundarySizes :
             TooLarge([type |-> ImagePng, size |-> n]) <=> n > 5 * 1024 * 1024)
    /\ [](TooLargeMsg # SelectImageMsg)
    /\ [][\A i \in (1..Len(Files)) \ NotImages :
             SelectFile(i)
                 => IF Files[i].size <= 5 * 1024 * 1024
                    THEN selectedFile' = i /\ previewUrl' = i /\ uploadStatus' = <<>>
                    ELSE /\ uploadStatus' = TooLargeMsg
                         /\ selectedFile' = selectedFile /\ previewUrl' = previewUrl]_vars

\* the image of exactly 5 MiB is selected and a larger image was rejected after it
C8_Witness ==
    /\ selectedFile = 1 /\ Files[1].size = 5 * 1024 * 1024
    /\ uploadStatus = TooLargeMsg

\* C9: an attempt whose location, storage upload and insert all succeeded
\* showed locating, uploading-photo, saving-report, success and nothing else.
C9_StatusOrder ==
    uploadStatus = SuccessMsg
        => statusTrace = <<LocatingMsg, UploadingMsg, SavingMsg, SuccessMsg>>

\* C10: when the storage upload of an attempt fails, the attempt is over, no
\* insert is sent and no row written, the success callback (and with it a
\* fetch) is not invoked; in the instance that started it the status is
\* 'Upload failed: ' followed by the backend's message, the selected file
\* and its preview are kept and isUploading is false again.
C10_StorageFailure ==
    [][\A a \in attempts : \A m \in StorageMessages :
          StorageFail(a, m)
              => /\ \A b \in attempts' : b.n # a.n
                 /\ db' = db /\ feed' = feed /\ storage' = storage
                 /\ nFetch' = nFetch /\ fetches' = fetches
                 /\ a.live => /\ uploadStatus' = <<"Upload failed: ", m>>
                              /\ selectedFile' = selectedFile /\ selectedFile' = a.file
                              /\ previewUrl' = previewUrl
                              /\ ~isUploading'
                              /\ timers' = timers]_vars

\* an attempt ended with the storage failure shown and its file still selected
C10_Witness ==
    /\ \E m \in StorageMessages : uploadStatus = <<"Upload failed: ", m>>
    /\ selectedFile # 0 /\ previewUrl = selectedFile /\ ~isUploading /\ attempts = {}

----------------------------------------------------------------------------
(* Upload Flow: claims C11 to C13 *)

\* the status values that report progress or success of an attempt
ProgressStatuses == {<<>>, LocatingMsg, UploadingMsg, SavingMsg, SuccessMsg}

\* the keys of the storage objects and of the rows written for attempt number n
Uploaded(n) == n \in storage
Inserted(n) == \E i \in 1..Len(db) : db[i] = n

\* C11: when getCurrentLocation() rejects, with an Error or with another
\* value, the attempt is over, no storage upload and no insert was or is
\* sent for it, the success callback is not invoked; in the instance that
\* started it the status is the Error's message, or 'Upload failed', which
\* is no progress or success message, and isUploading is false again.
C11_LocationFailure ==
    /\ [](\A a \in attempts : a.pc = "locating" => ~Uploaded(a.n) /\ ~Inserted(a.n))
    /\ [][\A a \in attempts : \A thrown \in LocationErrors :
             LocationFail(a, thrown)
                 => /\ \A b \in attempts' : b.n # a.n
                    /\ storage' = storage /\ db' = db /\ feed' = feed
                    /\ ~Uploaded(a.n)' /\ ~Inserted(a.n)'
                    /\ nFetch' = nFetch /\ fetches' = fetches
                    /\ a.live => /\ uploadStatus' = IF thrown.isError
                                                    THEN thrown.message
                                                    ELSE <<"Upload failed">>
                                 /\ uploadStatus' \notin ProgressStatuses
                                 /\ selectedFile' = selectedFile
                                 /\ ~isUploading']_vars

\* an attempt ended at the location step with 'Upload failed' shown, and
\* nothing of it reached the bucket or the table
C11_Witness ==
    /\ uploadStatus = <<"Upload failed">> /\ ~isUploading /\ attempts = {}
    /\ nAtt = 1 /\ storage = {} /\ db = <<>> /\ selectedFile # 0

\* C12: when the insert fails after the storage upload succeeded, the attempt
\* is over and no new one is started, no row is written, the stored object
\* is left in the bucket with no row pointing at it, the success callback
\* (and with it a fetch) is not invoked; in the instance that started it the
\* status is 'Database error: ' followed by the backend's message and
\* isUploading is false again.  No step ever removes an object.
C12_InsertFailure ==
    /\ [][storage \subseteq storage']_vars
    /\ [][\A a \in attempts : \A m \in DbMessages :
             InsertFail(a, m)
                 => /\ Uploaded(a.n) /\ Uploaded(a.n)' /\ ~Inserted(a.n)'
                    /\ storage' = storage /\ db' = db /\ feed' = feed
                    /\ attempts' = attempts \ {a} /\ nAtt' = nAtt
                    /\ nFetch' = nFetch /\ fetches' = fetches
                    /\ isUploadModalOpen' = isUploadModalOpen
                    /\ a.live => /\ uploadStatus' = <<"Database error: ", m>>
                                 /\ uploadStatus' \notin ProgressStatuses
                                 /\ selectedFile' = selectedFile
                                 /\ timers' = timers
                                 /\ ~isUploading']_vars

\* an attempt ended with the insert failure shown; its object is in the
\* bucket and no row refers to it
C12_Witness ==
    /\ \E m \in DbMessages : uploadStatus = <<"Database error: ", m>>
    /\ ~isUploading /\ attempts = {}
    /\ \E n \in storage : ~Inserted(n)

\* rows written by this client, and attempts whose insert was persisted and
\* whose handleUpload has not resumed yet
OwnRows == Cardinality({i \in 1..Len(db) : db[i] # 0})
AwaitingSuccess == Cardinality({a \in attempts : a.pc = "inserted"})

\* C13: when the insert of an attempt returns without error, onUploadSuccess
\* runs once: exactly one fetchReports() is issued, with origin 'upload', and
\* in the instance that ran the attempt the selected file and the preview
\* are none and the status is the success message; the attempt is over, so
\* the callback cannot run for it again.  A step in which an attempt fails
\* issues no fetch.  Over a whole behaviour the fetches issued are one per
\* mount, one per Try Again and one per attempt that succeeded.
C13_SuccessCallback ==
    /\ [](nFetch = inst + retries + OwnRows - AwaitingSuccess)
    /\ [][\A a \in attempts :
             InsertDone(a)
                 => /\ nFetch' = nFetch + 1
                    /\ \A b \in attempts' : b.n # a.n
                    /\ (a.hinst = inst /\ mounted)
                          => /\ Cardinality(fetches' \ fetches) = 1
                             /\ \A f \in fetches' \ fetches :
                                   f.origin = "upload" /\ f.n = nFetch' /\ f.stage = "sent"
                             /\ fetches \subseteq fetches'
                    /\ a.live => /\ selectedFile' = 0 /\ previewUrl' = 0
                                 /\ uploadStatus' = SuccessMsg
                                 /\ ~isUploading']_vars
    /\ [][\A a \in attempts :
             (\/ \E thrown \in LocationErrors : LocationFail(a, thrown)
              \/ \E m \in StorageMessages : StorageFail(a, m)
              \/ \E m \in DbMessages : InsertFail(a, m))
                 => nFetch' = nFetch /\ fetches' = fetches
                    /\ isUploadModalOpen' = isUploadModalOpen]_vars

\* an attempt has succeeded: the selection is reset and the one fetch its
\* callback issued is outstanding
C13_Witness ==
    /\ uploadStatus = SuccessMsg /\ selectedFile = 0 /\ previewUrl = 0
    /\ attempts = {} /\ nAtt = 1 /\ nFetch = 2
    /\ Cardinality(fetches) = 1 /\ \A f \in fetches : f.origin = "upload"

----------------------------------------------------------------------------
(* Concurrency and frame claims: C16 to C19 *)

\* C16: the timer a successful attempt sets only ever clears the success
\* status: when it fires over a status that a later file selection or a
\* later attempt has set, it leaves that status as it is.
C16_TimerOnlyClearsSuccess ==
    [][TimerFire => (uploadStatus = SuccessMsg \/ uploadStatus' = uploadStatus)]_vars

\* fetch f of the only instance Home ever had is the last outstanding one
\* and is not the one issued last: every fetch issued after it has completed
OlderArrivesLast(f) ==
    /\ inst = 1 /\ mounted
    /\ f.n < nFetch
    /\ \A g \in fetches : g.n <= f.n

\* C17: once all outstanding fetches have completed, the collection and the
\* error state are those the most recently issued fetch left: the response
\* of an older fetch that arrives after the newer ones neither replaces the
\* collection nor sets the error state.
C17_LatestIssuedFetchWins ==
    [][\A f \in fetches :
          (FetchDone(f) /\ OlderArrivesLast(f))
              => (reports' = reports /\ error' = error)]_vars

\* the files of the dialog that handleFileSelect rejects, read off the table
Rejected == {i \in 1..Len(Files) :
                Files[i].type \notin {ImagePng, ImageJpeg} \/ Files[i].size > 5 * 1024 * 1024}

\* C18: selecting a file that is rejected changes the status message and
\* nothing else: the selected file, its preview, isUploading, the attempts
\* and everything of Home and of the backend are as before, and when a file
\* had been selected the Submit Report button (disabled={!selectedFile ||
\* isUploading}) is still rendered and enabled for that file.
C18_RejectionKeepsSelection ==
    [][\A i \in Rejected :
          SelectFile(i)
              => /\ uploadStatus' \in {SelectImageMsg, TooLargeMsg}
                 /\ selectedFile' = selectedFile /\ previewUrl' = previewUrl
                 /\ UNCHANGED <<isUploading, attempts, nAtt, timers, backendVars, homeVars>>
                 /\ selectedFile # 0
                       => (MainView' /\ selectedFile' # 0 /\ ~isUploading')]_vars

\* the rejection of an image that is too large is shown while the file
\* accepted before it is still selected, previewed and ready to be submitted
C18_Witness ==
    /\ uploadStatus = TooLargeMsg /\ selectedFile = 2 /\ previewUrl = 2
    /\ MainView /\ ~isUploading /\ nAtt = 0

\* the attempts of the mounted UploadComponent instance
Live == {a \in attempts : a.live}

\* the awaits handleUpload still has before it, by position
Remaining(pc) == CASE pc = "locating" -> 4 [] pc = "uploading" -> 3
                   [] pc = "saving" -> 2 [] pc = "inserted" -> 1

\* the next external call of attempt a returns, one way or the other
Returns(a) ==
    \/ LocationOk(a) \/ \E thrown \in LocationErrors : LocationFail(a, thrown)
    \/ StorageOk(a) \/ \E m \in StorageMessages : StorageFail(a, m)
    \/ BackendInsert(a) \/ \E m \in DbMessages : InsertFail(a, m)
    \/ InsertDone(a)

\* every external call an attempt awaits returns, with a result or an error
FairSpec == Spec /\ WF_vars(\E a \in attempts : Returns(a))

\* one UploadComponent instance has at most one attempt in flight, and
\* isUploading is true exactly while it has one; while isUploading is true
\* the file input, the clear button and the submit button do nothing, the
\* selected file is the file of the attempt and stays so; every attempt
\* can always take its next step, each step brings it nearer to its end,
\* and the step that ends it, success or failure, leaves isUploading false.
OneAttemptInFlight ==
    /\ [](Cardinality(Live) <= 1)
    /\ [](isUploading <=> Live # {})
    /\ [](\A a \in Live : a.file = selectedFile /\ selectedFile # 0)
    /\ [](isUploading
            => /\ ~ENABLED ClickUpload /\ ~ENABLED ClearSelection
               /\ \A i \in 0..Len(Files) : ~ENABLED SelectFile(i))
    /\ [](\A a \in attempts : ENABLED Returns(a))
    /\ [][(isUploading /\ isUploading')
             => (selectedFile' = selectedFile /\ previewUrl' = previewUrl /\ nAtt' = nAtt
                 /\ Live' \subseteq {[a EXCEPT !.pc = q] :
                                        a \in Live, q \in {"locating", "uploading", "saving",
                                                            "inserted"}})]_vars
    /\ [][\A a \in attempts :
             Returns(a)
                => \/ /\ \A b \in attempts' : b.n # a.n
                       /\ a.live => ~isUploading'
                   \/ \E b \in attempts' :
                         b.n = a.n /\ b.live = a.live /\ Remaining(b.pc) < Remaining(a.pc)]_vars

\* C19: within one UploadComponent instance at most one attempt is in flight;
\* while isUploading is true the submit, clear and file controls are
\* disabled and the selected file does not change; and when every external
\* call returns, isUploading is false again after every attempt, whichever
\* way it ends.
C19_ExclusiveAndEnds ==
    /\ OneAttemptInFlight
    /\ isUploading ~> ~isUploading

\* an attempt is in flight, past the storage upload, with its file selected
C19_Witness ==
    /\ isUploading /\ selectedFile = 2
    /\ \E a \in attempts : a.live /\ a.pc = "saving" /\ a.file = 2
    /\ uploadStatus = SavingMsg

----------------------------------------------------------------------------
(* Map and Detail Modal: claims C14 and C20 *)

\* C14: a click on the map that picks no report calls no handler and leaves
\* selectedReport and isModalOpen, and the rest of the state, as they were;
\* a click that picks a report of the collection sets selectedReport to that
\* report and isModalOpen to true, so that ReportModal renders it, and
\* changes nothing of the collection.
C14_MapClick ==
    [][\A object \in {0} \cup Ids(reports) :
          MapClick(object)
              => IF object = 0
                 THEN UNCHANGED <<selectedReport, isModalOpen, clicks, reports, error>>
                 ELSE /\ selectedReport' = object /\ isModalOpen'
                      /\ ReportModalShown'
                      /\ selectedReport' \in Ids(reports')
                      /\ UNCHANGED <<reports, error, isLoading, fetches, nFetch>>]_vars

\* the report of another client was picked on the map and is shown
C14_Witness ==
    /\ ReportModalShown /\ selectedReport = 1 /\ clicks = 1
    /\ reports = <<1>> /\ db = <<0>>

\* C20: while isModalOpen is true a report is selected; closeModal sets
\* isModalOpen to false and selectedReport to null; a bulk fetch that
\* completes, with a result or with a failure, and a streamed insert leave
\* isModalOpen and selectedReport as they were, and so does every step that
\* changes the collection of the mounted page.
C20_ModalState ==
    /\ [](isModalOpen => selectedReport # 0)
    /\ [][CloseModal => (~isModalOpen' /\ selectedReport' = 0)]_vars
    /\ [][((\E f \in fetches : FetchDone(f)) \/ (\E e \in feed : StreamDeliver(e)))
             => UNCHANGED <<selectedReport, isModalOpen>>]_vars
    /\ [][(mounted' /\ reports' # reports)
             => UNCHANGED <<selectedReport, isModalOpen>>]_vars

\* the Detail Modal shows a report while the response of a bulk fetch is
\* about to replace the collection
C20_Witness ==
    /\ ReportModalShown /\ selectedReport \in Ids(reports)
    /\ \E f \in fetches : f.stage = "answered" /\ f.inst = inst /\ ~f.error

\* the Detail Modal shows a report while a streamed insert is about to be
\* prepended to the collection
C20_WitnessStream ==
    /\ ReportModalShown /\ \E e \in feed : e.chan = inst

----------------------------------------------------------------------------
(* Collection order: claim C15 *)

\* s is what a bulk fetch returns: the rows m, m-1, ..., 1, newest first
BackendOrder(s) == \A i \in 1..Len(s) : s[i] = Len(s) - i + 1

\* the collection is k streamed reports followed by the result of a fetch
StreamedThenFetched(k) ==
    /\ \A i \in 1..k : reports[i] \in streamed
    /\ BackendOrder(SubSeq(reports, k + 1, Len(reports)))

\* C15: a bulk fetch that succeeds makes the collection its result, in the
\* order the backend returned it, newest first; each streamed insert puts
\* its report in front of the collection as it is, whatever its created_at;
\* nothing else changes the collection of the mounted page.  So after a
\* fetch and k streamed inserts the collection is the k reports, the one
\* delivered last first, followed by the fetch result.
C15_PrependOrder ==
    /\ [](\E k \in 0..Len(reports) : StreamedThenFetched(k))
    /\ [][\A f \in fetches :
             (FetchDone(f) /\ ~f.error /\ f.inst = inst /\ mounted)
                 => (reports' = f.data /\ BackendOrder(reports'))]_vars
    /\ [][\A e \in feed :
             (StreamDeliver(e) /\ e.chan = inst /\ mounted)
                 => /\ Len(reports') = Len(reports) + 1
                    /\ reports'[1] = e.id
                    /\ \A i \in 1..Len(reports) : reports'[i + 1] = reports[i]]_vars
    /\ [][(mounted' /\ reports' # reports)
             => \/ \E f \in fetches : FetchDone(f) /\ ~f.error
                \/ \E e \in feed : StreamDeliver(e)]_vars

\* the fetch returned nothing and two inserts were streamed afterwards, the
\* older report delivered last: it is the first of the collection
C15_Witness ==
    /\ mounted /\ ~isLoading /\ fetches = {} /\ nFetch = 1
    /\ reports = <<1, 2>> /\ streamed = {1, 2}

====
